---- MODULE Spec2Model ----
(***************************************************************************)
(* A model of keras_rnn_generation.ipynb: the padding/batching cells, the  *)
(* stateful training loop and the autoregressive generation loop.          *)
(*                                                                         *)
(* The hidden state of a stateful network is modelled as the tokens (or    *)
(* the mini-batches) fed to it since the last reset_states(): the zero     *)
(* state is the empty sequence.  A probability distribution returned by    *)
(* predict_on_batch is modelled as the hidden state it is conditioned on   *)
(* together with its support (the ids numpy.random.choice may draw).       *)
(***************************************************************************)
EXTENDS Integers, Sequences, FiniteSets, TLC

VARIABLES
    \* ---- training notebook cells ----
    tpc,            \* position in the training cells
    train_seqs,     \* tokenizer.texts_to_sequences(train_stories), before padding
    maxlen,         \* length of the longest story
    train_idxs,     \* the padded matrix (a sequence of rows)
    train_x,        \* train_idxs[:, :-1]
    train_y,        \* train_idxs[:, 1:]
    batch_size,     \* rows per mini-batch the model is built with
    n_timesteps,    \* width the training model is built with
    epoch,          \* loop variable of the outer loop
    batch_idx,      \* loop variable of the inner loop
    loss,           \* value returned by the last train_on_batch
    losses,         \* losses of the current epoch
    rnn_state,      \* hidden state of rnn: mini-batches fed since the last reset
    rnn_rows,       \* the same state by row: ids each row's state has taken in
    n_trains,       \* train_on_batch calls made so far
    resets_since_train, \* reset_states calls since the last train_on_batch
    train_from,     \* hidden state the last train_on_batch started from
    reported,       \* what the last print of the mean loss covered
    n_saves,        \* save_weights calls made so far
    \* ---- generation notebook cells ----
    gpc,            \* position in the generation cell
    net,            \* support of the loaded model's output distribution
    n_heldout,      \* number of held-out stories
    story_no,       \* 1-based position of the current story in heldout_idxs
    story_idxs,     \* the current story's context
    step_idx,       \* loop variable of the reading loop
    generated_ending, \* ids sampled for the current story
    next_word,      \* last sampled id (a global of the kernel)
    p_next_word,    \* last distribution returned by predict_on_batch
    gen_state,      \* hidden state of generation_rnn: ids fed since the last reset
    n_predicts,     \* predict_on_batch calls made for the current story
    sampled_from,   \* distribution each id of generated_ending was drawn from
    generated_text, \* the decoded ending of the last finished story
    raised,         \* the exception that stopped the generation cell, if any
    story_resets,   \* reset_states calls made for the current story
    last_read,      \* the current story's Reading phase: context, state it
                    \* started from, distribution it ended with
    twin_read       \* the same of the story before, when that story had the
                    \* same context and starting state

train_vars == <<tpc, train_seqs, maxlen, train_idxs, train_x, train_y, batch_size,
                n_timesteps, epoch, batch_idx, loss, losses, rnn_state, rnn_rows,
                n_trains, resets_since_train, train_from, reported, n_saves>>

gen_vars == <<gpc, net, n_heldout, story_no, story_idxs, step_idx, generated_ending,
              next_word, p_next_word, gen_state, n_predicts, sampled_from,
              generated_text, raised, story_resets, last_read, twin_read>>

vars == <<train_vars, gen_vars>>

-----------------------------------------------------------------------------
(* Bounds of the exploration *)

MaxStories == 2     \* training stories
MaxLen == 3         \* words in a training story
MaxBatch == 2       \* batch_size values tried
MaxEpochs == 2      \* n_epochs
MaxHeldout == 2     \* held-out stories
MaxCtx == 2         \* words in a held-out context
MaxGen == 3         \* sampled words explored per story

-----------------------------------------------------------------------------
(* Values *)

\* names the kernel has not bound yet
NoMatrix == <<>>
NoLoss == [epoch |-> -1, batch |-> -1, rows |-> 0, x |-> <<>>, y |-> <<>>,
           terms |-> {}, finite |-> TRUE]
NoReport == [epoch |-> -1, over |-> <<>>]
NoWord == -1
NoRead == [context |-> <<>>, start |-> <<>>, read |-> FALSE, from |-> <<>>,
           support |-> {}]
NoDist == [story |-> 0, call |-> 0, from |-> <<>>, support |-> {}]

\* tokenizer.word_index of the training stories: indices start at 1
TrainIds == {1, 2}

RECURSIVE SeqsUpTo(_, _)
SeqsUpTo(S, n) ==
    IF n = 0 THEN {<<>>}
    ELSE LET shorter == SeqsUpTo(S, n - 1)
         IN  shorter \cup {Append(s, x) : s \in {t \in shorter : Len(t) = n - 1}, x \in S}

Max(S) == CHOOSE m \in S : \A k \in S : k <= m
Min2(a, b) == IF a < b THEN a ELSE b

Zeros(n) == [i \in 1..n |-> 0]

-----------------------------------------------------------------------------
(* SequenceBatcher: the padded matrix, and the input and target slices *)

\* a variant of pad_row that pads on the right (padding='post')
pad_row_post(s, W) ==
    IF Len(s) >= W THEN SubSeq(s, Len(s) - W + 1, Len(s))
    ELSE s \o Zeros(W - Len(s))

\* keras pad_sequences on one sequence with the defaults the notebook uses:
\* padding='pre', truncating='pre', value=0
pad_row(s, W) ==
    IF Len(s) >= W THEN SubSeq(s, Len(s) - W + 1, Len(s))
    ELSE Zeros(W - Len(s)) \o s

pad_sequences(seqs, W) == [i \in 1..Len(seqs) |-> pad_row(seqs[i], W)]

\* a variant of input_slice that keeps the last column
input_slice_all(m) == m

\* train_idxs[:, :-1]
input_slice(m) == [i \in 1..Len(m) |-> SubSeq(m[i], 1, Len(m[i]) - 1)]

\* train_idxs[:, 1:]
target_slice(m) == [i \in 1..Len(m) |-> SubSeq(m[i], 2, Len(m[i]))]

\* a variant of row_slice that takes the rows from the top of the matrix
row_slice_from_top(m, lo, hi) == SubSeq(m, 1, Min2(hi - lo, Len(m)))

\* m[lo:hi] on rows, 0-based and clipped like a numpy slice
row_slice(m, lo, hi) == SubSeq(m, lo + 1, Min2(hi, Len(m)))

-----------------------------------------------------------------------------
(* RecurrentLanguageModel as the training loop uses it *)

\* a variant of loss_terms that masks by the target instead of the input
loss_terms_by_target(bx, by) ==
    {<<r, t>> \in (1..Len(bx)) \X (1..n_timesteps) :
        t <= Len(by[r]) /\ by[r][t] # 0}

\* Embedding(mask_zero=True): the mask is input != 0; it is carried through the
\* recurrent layers and the TimeDistributed output to the loss, which keeps one
\* cross-entropy term per unmasked position <<row, timestep>>
loss_terms(bx, by) ==
    {<<r, t>> \in (1..Len(bx)) \X (1..n_timesteps) :
        t <= Len(bx[r]) /\ bx[r][t] # 0}

\* a variant of feed without the mask: id 0 advances the state like a word
feed_unmasked(state, id) == Append(state, id)

\* The recurrent layers advance the hidden state by one input id; the embedding
\* masks id 0 (mask_zero=True), which leaves the state as it was.
feed(state, id) == IF id = 0 THEN state ELSE Append(state, id)

\* the recurrent layers run over the timesteps of one row, left to right
RECURSIVE consume(_, _)
consume(state, row) ==
    IF Len(row) = 0 THEN state ELSE consume(feed(state, Head(row)), Tail(row))

\* The masked loss is the sum over the unmasked positions divided by the mean of
\* the mask: with no unmasked position in the mini-batch this is 0/0, not a
\* finite number.  (The value of any other loss is not modelled.)
loss_is_finite(terms) == terms # {}

\* a variant of reset_states that leaves the state as it is
reset_states_noop(state) == state

\* rnn.reset_states(): the zero hidden state
reset_states(state) == <<>>

-----------------------------------------------------------------------------
(* The training cells *)

GenIdle ==
    /\ gpc = "idle"
    /\ net = {}
    /\ n_heldout = 0
    /\ story_no = 0
    /\ story_idxs = <<>>
    /\ step_idx = 0
    /\ generated_ending = <<>>
    /\ next_word = NoWord
    /\ p_next_word = NoDist
    /\ gen_state = <<>>
    /\ n_predicts = 0
    /\ sampled_from = <<>>
    /\ generated_text = <<>>
    /\ raised = "none"
    /\ story_resets = 0
    /\ last_read = NoRead
    /\ twin_read = NoRead

TrainInit ==
    /\ tpc = "pad"
    /\ train_seqs \in {ss \in SeqsUpTo(SeqsUpTo(TrainIds, MaxLen), MaxStories) : Len(ss) >= 1}
    /\ batch_size \in 1..MaxBatch
    /\ maxlen = 0
    /\ train_idxs = NoMatrix
    /\ train_x = NoMatrix
    /\ train_y = NoMatrix
    /\ n_timesteps = 0
    /\ epoch = 0
    /\ batch_idx = 0
    /\ loss = NoLoss
    /\ losses = <<>>
    /\ rnn_state = <<>>
    /\ rnn_rows = <<>>
    /\ n_trains = 0
    /\ resets_since_train = 0
    /\ train_from = <<>>
    /\ reported = NoReport
    /\ n_saves = 0
    /\ GenIdle

n_epochs == MaxEpochs

\* maxlen = max(len(story)); train_idxs = pad_sequences(train_idxs, maxlen=maxlen)
PadMatrix ==
    /\ tpc = "pad"
    /\ LET W == Max({Len(train_seqs[i]) : i \in 1..Len(train_seqs)})
       IN  /\ maxlen' = W
           /\ train_idxs' = pad_sequences(train_seqs, W)
    /\ tpc' = "xy"
    /\ UNCHANGED <<train_seqs, train_x, train_y, batch_size, n_timesteps, epoch,
                   batch_idx, loss, losses, rnn_state, rnn_rows, n_trains, resets_since_train,
                   train_from, reported, n_saves, gen_vars>>

\* train_x = train_idxs[:, :-1]; train_y = train_idxs[:, 1:]
SetInputOutput ==
    /\ tpc = "xy"
    /\ train_x' = input_slice(train_idxs)
    /\ train_y' = target_slice(train_idxs)
    /\ tpc' = "create"
    /\ UNCHANGED <<train_seqs, maxlen, train_idxs, batch_size, n_timesteps, epoch,
                   batch_idx, loss, losses, rnn_state, rnn_rows, n_trains, resets_since_train,
                   train_from, reported, n_saves, gen_vars>>

\* rnn = create_rnn(..., batch_size = batch_size, n_timesteps = maxlen - 1)
CreateRnn ==
    /\ tpc = "create"
    /\ n_timesteps' = maxlen - 1
    /\ rnn_state' = <<>>
    /\ rnn_rows' = [r \in 1..batch_size |-> <<>>]
    /\ tpc' = "epoch"
    /\ UNCHANGED <<train_seqs, maxlen, train_idxs, train_x, train_y, batch_size, epoch,
                   batch_idx, loss, losses, n_trains, resets_since_train,
                   train_from, reported, n_saves, gen_vars>>

\* a variant of EpochStart that does not empty losses
EpochStart_keep_losses ==
    /\ tpc = "epoch"
    /\ IF epoch < n_epochs
       THEN /\ batch_idx' = 0
            /\ tpc' = "train"
       ELSE /\ tpc' = "done"
            /\ UNCHANGED batch_idx
    /\ UNCHANGED <<train_seqs, maxlen, train_idxs, train_x, train_y, batch_size,
                   n_timesteps, epoch, loss, losses, rnn_state, rnn_rows, n_trains,
                   resets_since_train, train_from, reported, n_saves, gen_vars>>

\* for epoch in range(n_epochs): losses = []; for batch_idx in range(0, N, batch_size)
EpochStart ==
    /\ tpc = "epoch"
    /\ IF epoch < n_epochs
       THEN /\ losses' = <<>>
            /\ batch_idx' = 0
            /\ tpc' = "train"
       ELSE /\ tpc' = "done"
            /\ UNCHANGED <<losses, batch_idx>>
    /\ UNCHANGED <<train_seqs, maxlen, train_idxs, train_x, train_y, batch_size,
                   n_timesteps, epoch, loss, rnn_state, rnn_rows, n_trains, resets_since_train,
                   train_from, reported, n_saves, gen_vars>>

\* a variant of TrainOnBatch that trains on whatever rows the slice holds
TrainOnBatch_any_rows ==
    /\ tpc = "train"
    /\ LET batch_x == row_slice(train_x, batch_idx, batch_idx + batch_size)
           batch_y == row_slice(train_y, batch_idx, batch_idx + batch_size)
       IN  /\ loss' = [epoch |-> epoch, batch |-> batch_idx,
                       rows |-> Len(batch_x),
                       x |-> batch_x, y |-> batch_y,
                       terms |-> loss_terms(batch_x, batch_y),
                       finite |-> loss_is_finite(loss_terms(batch_x, batch_y))]
           /\ train_from' = rnn_state
           /\ rnn_state' = Append(rnn_state, <<epoch, batch_idx>>)
           /\ rnn_rows' = [r \in 1..batch_size |->
                              IF r <= Len(batch_x) THEN consume(rnn_rows[r], batch_x[r])
                              ELSE rnn_rows[r]]
           /\ n_trains' = n_trains + 1
           /\ resets_since_train' = 0
           /\ tpc' = "append"
    /\ UNCHANGED <<train_seqs, maxlen, train_idxs, train_x, train_y, batch_size,
                   n_timesteps, epoch, batch_idx, losses, reported, n_saves, gen_vars>>

\* batch_x, batch_y = the row slices; loss = rnn.train_on_batch(batch_x, batch_y)
\* A mini-batch with fewer rows than the stateful model was built with does not fit
\* the model's per-row state buffers: the library raises and the cell stops.
TrainOnBatch ==
    /\ tpc = "train"
    /\ LET batch_x == row_slice(train_x, batch_idx, batch_idx + batch_size)
           batch_y == row_slice(train_y, batch_idx, batch_idx + batch_size)
       IN  IF Len(batch_x) # batch_size
           THEN /\ tpc' = "error"
                /\ UNCHANGED <<loss, rnn_state, rnn_rows, n_trains,
                               resets_since_train, train_from>>
           ELSE /\ loss' = [epoch |-> epoch, batch |-> batch_idx,
                            rows |-> Len(batch_x),
                       x |-> batch_x, y |-> batch_y,
                            terms |-> loss_terms(batch_x, batch_y),
                            finite |-> loss_is_finite(loss_terms(batch_x, batch_y))]
                /\ train_from' = rnn_state
                /\ rnn_state' = Append(rnn_state, <<epoch, batch_idx>>)
                /\ rnn_rows' = [r \in 1..batch_size |-> consume(rnn_rows[r], batch_x[r])]
                /\ n_trains' = n_trains + 1
                /\ resets_since_train' = 0
                /\ tpc' = "append"
    /\ UNCHANGED <<train_seqs, maxlen, train_idxs, train_x, train_y, batch_size,
                   n_timesteps, epoch, batch_idx, losses, reported, n_saves, gen_vars>>

\* losses.append(loss)
AppendLoss ==
    /\ tpc = "append"
    /\ losses' = Append(losses, loss)
    /\ tpc' = "reset"
    /\ UNCHANGED <<train_seqs, maxlen, train_idxs, train_x, train_y, batch_size,
                   n_timesteps, epoch, batch_idx, loss, rnn_state, rnn_rows, n_trains,
                   resets_since_train, train_from, reported, n_saves, gen_vars>>

\* rnn.reset_states(), then the inner loop advances
ResetAfterBatch ==
    /\ tpc = "reset"
    /\ rnn_state' = reset_states(rnn_state)
    /\ rnn_rows' = [r \in 1..batch_size |-> reset_states(rnn_rows[r])]
    /\ resets_since_train' = resets_since_train + 1
    /\ batch_idx' = batch_idx + batch_size
    /\ tpc' = IF batch_idx + batch_size < Len(train_seqs) THEN "train" ELSE "report"
    /\ UNCHANGED <<train_seqs, maxlen, train_idxs, train_x, train_y, batch_size,
                   n_timesteps, epoch, loss, losses, n_trains, train_from,
                   reported, n_saves, gen_vars>>

\* print("epoch", epoch + 1, "mean loss: %.3f" % numpy.mean(losses))
ReportMean ==
    /\ tpc = "report"
    /\ reported' = [epoch |-> epoch + 1, over |-> losses]
    /\ tpc' = "save"
    /\ UNCHANGED <<train_seqs, maxlen, train_idxs, train_x, train_y, batch_size,
                   n_timesteps, epoch, batch_idx, loss, losses, rnn_state, rnn_rows, n_trains,
                   resets_since_train, train_from, n_saves, gen_vars>>

\* rnn.save_weights('example_rnn_weights.h5'), then the outer loop advances
SaveWeights ==
    /\ tpc = "save"
    /\ n_saves' = n_saves + 1
    /\ epoch' = epoch + 1
    /\ tpc' = "epoch"
    /\ UNCHANGED <<train_seqs, maxlen, train_idxs, train_x, train_y, batch_size,
                   n_timesteps, batch_idx, loss, losses, rnn_state, rnn_rows, n_trains,
                   resets_since_train, train_from, reported, gen_vars>>

TrainNext ==
    \/ PadMatrix
    \/ SetInputOutput
    \/ CreateRnn
    \/ EpochStart
    \/ TrainOnBatch
    \/ AppendLoss
    \/ ResetAfterBatch
    \/ ReportMean
    \/ SaveWeights

TrainSpec == TrainInit /\ [][TrainNext]_vars

-----------------------------------------------------------------------------
(* The generation cells *)

\* lexicon_lookup = {index: word}: the reverse of tokenizer.word_index, whose
\* indices start at 1.  A word is the sequence of its characters; the tokenizer
\* keeps punctuation attached to the word (filters='').
lexicon_lookup ==
    <<  <<"t", "h", "e">>,
        <<"c", "a", "t">>,
        <<"s", "a", "t", ".">>,
        <<".">>  >>

lexicon_size == Len(lexicon_lookup)

eos_tokens == {".", "?", "!"}

\* a variant of ends_sentence that tests the first character of the word
ends_sentence_first_char(word) == word[1] \in eos_tokens

\* lexicon_lookup[next_word][-1] in eos_tokens
ends_sentence(word) == word[Len(word)] \in eos_tokens

\* The loaded network, by the support of its softmax output over the
\* lexicon_size + 1 indices: the full support, or a test double that puts all
\* mass on one id.
Nets == {0..lexicon_size} \cup {{k} : k \in 1..lexicon_size}

Contexts == SeqsUpTo(1..lexicon_size, MaxCtx)

\* a variant of read_token that walks the context from its end
read_token_reversed(ctx, i) == ctx[Len(ctx) - i]

\* story_idxs[:, step_idx], with step_idx counted from 0
read_token(ctx, i) == ctx[i + 1]

\* generation_rnn.predict_on_batch(...)[0,-1] as call number `call` of story
\* `story`, made in hidden state `state` (the state after the input was fed)
\* a variant of predict_on_batch whose result also depends on the story it is
\* called for
predict_on_batch_by_story(story, call, state) ==
    [story |-> story, call |-> call, from |-> <<story>> \o state, support |-> net]

predict_on_batch(story, call, state) ==
    [story |-> story, call |-> call, from |-> state, support |-> net]

TrainIdle ==
    /\ tpc = "idle"
    /\ train_seqs = <<>>
    /\ batch_size = 0
    /\ maxlen = 0
    /\ train_idxs = NoMatrix
    /\ train_x = NoMatrix
    /\ train_y = NoMatrix
    /\ n_timesteps = 0
    /\ epoch = 0
    /\ batch_idx = 0
    /\ loss = NoLoss
    /\ losses = <<>>
    /\ rnn_state = <<>>
    /\ rnn_rows = <<>>
    /\ n_trains = 0
    /\ resets_since_train = 0
    /\ train_from = <<>>
    /\ reported = NoReport
    /\ n_saves = 0

\* generation_rnn = create_rnn(..., batch_size = 1, n_timesteps = 1); load_weights
GenInit ==
    /\ gpc = "for"
    /\ net \in Nets
    /\ n_heldout \in 1..MaxHeldout
    /\ story_no = 0
    /\ story_idxs = <<>>
    /\ step_idx = 0
    /\ generated_ending = <<>>
    /\ next_word = NoWord
    /\ p_next_word = NoDist
    /\ gen_state = <<>>
    /\ n_predicts = 0
    /\ sampled_from = <<>>
    /\ generated_text = <<>>
    /\ raised = "none"
    /\ story_resets = 0
    /\ last_read = NoRead
    /\ twin_read = NoRead
    /\ TrainIdle

\* for story, story_idxs, ending in zip(...): generated_ending = [];
\* story_idxs = numpy.array(story_idxs)[None]; the reading loop is entered when
\* the context has a token
StartStory ==
    /\ gpc = "for"
    /\ story_no < n_heldout
    /\ \E ctx \in Contexts :
        /\ story_idxs' = ctx
        /\ gpc' = IF Len(ctx) = 0 THEN "while" ELSE "read"
        /\ last_read' = [context |-> ctx, start |-> gen_state, read |-> Len(ctx) = 0,
                         from |-> <<>>, support |-> {}]
        /\ twin_read' = IF /\ last_read.read
                           /\ last_read.context = ctx
                           /\ last_read.start = gen_state
                        THEN last_read ELSE NoRead
    /\ story_resets' = 0
    /\ story_no' = story_no + 1
    /\ generated_ending' = <<>>
    /\ step_idx' = 0
    /\ n_predicts' = 0
    /\ sampled_from' = <<>>
    /\ UNCHANGED <<net, n_heldout, next_word, p_next_word, gen_state, generated_text,
                   raised, train_vars>>

\* zip is exhausted: the cell ends
FinishStories ==
    /\ gpc = "for"
    /\ story_no = n_heldout
    /\ gpc' = "finished"
    /\ UNCHANGED <<net, n_heldout, story_no, story_idxs, step_idx, generated_ending,
                   next_word, p_next_word, gen_state, n_predicts, sampled_from,
                   generated_text, raised, story_resets, last_read, twin_read, train_vars>>

\* for step_idx in range(story_idxs.shape[-1]):
\*     p_next_word = generation_rnn.predict_on_batch(story_idxs[:, step_idx])[0,-1]
ReadStep ==
    /\ gpc = "read"
    /\ step_idx < Len(story_idxs)
    /\ LET state == feed(gen_state, read_token(story_idxs, step_idx))
           dist == predict_on_batch(story_no, n_predicts + 1, state)
       IN  /\ gen_state' = state
           /\ p_next_word' = dist
           /\ last_read' = IF step_idx + 1 < Len(story_idxs) THEN last_read
                           ELSE [last_read EXCEPT !.read = TRUE, !.from = dist.from,
                                                  !.support = dist.support]
    /\ n_predicts' = n_predicts + 1
    /\ step_idx' = step_idx + 1
    /\ gpc' = IF step_idx + 1 < Len(story_idxs) THEN "read" ELSE "while"
    /\ UNCHANGED <<net, n_heldout, story_no, story_idxs, generated_ending, next_word,
                   sampled_from, generated_text, raised, story_resets, twin_read, train_vars>>

\* a variant of WhileTest that takes an id with no entry in lexicon_lookup for a
\* word that does not end the sentence
WhileTest_lenient ==
    /\ gpc = "while"
    /\ IF Len(generated_ending) = 0
       THEN gpc' = "sample" /\ UNCHANGED raised
       ELSE IF next_word = NoWord
       THEN gpc' = "error" /\ raised' = "NameError"
       ELSE IF next_word \notin 1..lexicon_size
       THEN gpc' = "sample" /\ UNCHANGED raised
       ELSE IF ~ends_sentence(lexicon_lookup[next_word])
       THEN gpc' = "sample" /\ UNCHANGED raised
       ELSE gpc' = "reset" /\ UNCHANGED raised
    /\ UNCHANGED <<net, n_heldout, story_no, story_idxs, step_idx, generated_ending,
                   next_word, p_next_word, gen_state, n_predicts, sampled_from,
                   generated_text, story_resets, last_read, twin_read, train_vars>>

\* a variant of WhileTest without the "not generated_ending" operand
WhileTest_no_guard ==
    /\ gpc = "while"
    /\ IF next_word = NoWord
       THEN gpc' = "error" /\ raised' = "NameError"
       ELSE IF next_word \notin 1..lexicon_size
       THEN gpc' = "error" /\ raised' = "KeyError"
       ELSE IF ~ends_sentence(lexicon_lookup[next_word])
       THEN gpc' = "sample" /\ UNCHANGED raised
       ELSE gpc' = "reset" /\ UNCHANGED raised
    /\ UNCHANGED <<net, n_heldout, story_no, story_idxs, step_idx, generated_ending,
                   next_word, p_next_word, gen_state, n_predicts, sampled_from,
                   generated_text, story_resets, last_read, twin_read, train_vars>>

\* while not generated_ending or lexicon_lookup[next_word][-1] not in eos_tokens:
\* the second operand is evaluated only when generated_ending is not empty; a
\* next_word that is no key of lexicon_lookup raises KeyError
WhileTest ==
    /\ gpc = "while"
    /\ IF Len(generated_ending) = 0
       THEN gpc' = "sample" /\ UNCHANGED raised
       ELSE IF next_word = NoWord
       THEN gpc' = "error" /\ raised' = "NameError"
       ELSE IF next_word \notin 1..lexicon_size
       THEN gpc' = "error" /\ raised' = "KeyError"
       ELSE IF ~ends_sentence(lexicon_lookup[next_word])
       THEN gpc' = "sample" /\ UNCHANGED raised
       ELSE gpc' = "reset" /\ UNCHANGED raised
    /\ UNCHANGED <<net, n_heldout, story_no, story_idxs, step_idx, generated_ending,
                   next_word, p_next_word, gen_state, n_predicts, sampled_from,
                   generated_text, story_resets, last_read, twin_read, train_vars>>

\* next_word = numpy.random.choice(a=p_next_word.shape[-1], p=p_next_word)
\* generated_ending.append(next_word)
\* p_next_word = generation_rnn.predict_on_batch(numpy.array(next_word)[None,None])[0,-1]
\* A p_next_word that was never bound raises NameError.  The loop has no bound
\* of its own; MaxGen bounds the exploration only.
SampleStep ==
    /\ gpc = "sample"
    /\ Len(generated_ending) < MaxGen
    /\ IF p_next_word = NoDist
       THEN /\ gpc' = "error"
            /\ raised' = "NameError"
            /\ UNCHANGED <<next_word, generated_ending, p_next_word, gen_state,
                           n_predicts, sampled_from>>
       ELSE /\ \E w \in p_next_word.support :
                /\ next_word' = w
                /\ generated_ending' = Append(generated_ending, w)
                /\ LET state == feed(gen_state, w)
                   IN  /\ gen_state' = state
                       /\ p_next_word' = predict_on_batch(story_no, n_predicts + 1, state)
            /\ sampled_from' = Append(sampled_from, p_next_word)
            /\ n_predicts' = n_predicts + 1
            /\ gpc' = "while"
            /\ UNCHANGED raised
    /\ UNCHANGED <<net, n_heldout, story_no, story_idxs, step_idx, generated_text,
                   story_resets, last_read, twin_read, train_vars>>

\* generation_rnn.reset_states()
ResetAfterStory ==
    /\ gpc = "reset"
    /\ gen_state' = reset_states(gen_state)
    /\ story_resets' = story_resets + 1
    /\ gpc' = "decode"
    /\ UNCHANGED <<net, n_heldout, story_no, story_idxs, step_idx, generated_ending,
                   next_word, p_next_word, n_predicts, sampled_from, generated_text,
                   raised, last_read, twin_read, train_vars>>

\* generated_ending = " ".join([lexicon_lookup[word] for word in generated_ending])
DecodeEnding ==
    /\ gpc = "decode"
    /\ IF \A i \in 1..Len(generated_ending) : generated_ending[i] \in 1..lexicon_size
       THEN /\ generated_text' = [i \in 1..Len(generated_ending) |->
                                     lexicon_lookup[generated_ending[i]]]
            /\ gpc' = "for"
            /\ UNCHANGED raised
       ELSE /\ gpc' = "error"
            /\ raised' = "KeyError"
            /\ UNCHANGED generated_text
    /\ UNCHANGED <<net, n_heldout, story_no, story_idxs, step_idx, generated_ending,
                   next_word, p_next_word, gen_state, n_predicts, sampled_from,
                   story_resets, last_read, twin_read, train_vars>>

GenNext ==
    \/ StartStory
    \/ FinishStories
    \/ ReadStep
    \/ WhileTest
    \/ SampleStep
    \/ ResetAfterStory
    \/ DecodeEnding

GenSpec == GenInit /\ [][GenNext]_vars

-----------------------------------------------------------------------------
(* The notebook: the kernel runs the training cells, or (training skipped, the
   pre-trained weights loaded) the generation cells *)

Init == TrainInit \/ GenInit

Next == TrainNext \/ GenNext

Spec == Init /\ [][Next]_vars

-----------------------------------------------------------------------------
(* Properties *)

TrainOnBatchCalled == tpc = "train" /\ tpc' \in {"append", "error"}

\* C1: every train_on_batch call starts from the zero hidden state, and between
\* two consecutive train_on_batch calls (also across the end of an epoch) there
\* is exactly one reset_states call.
C1_ResetBetweenBatches ==
    [][TrainOnBatchCalled =>
          /\ rnn_state = <<>>
          /\ (n_trains > 0 => resets_since_train = 1)]_vars

C1_Witness ==
    /\ tpc = "append"
    /\ epoch = 1
    /\ batch_idx > 0
    /\ n_trains >= 4
    /\ train_from = <<>>

\* C2: generate performs no more than M sampling steps, for a cap M (here any
\* cap below the depth the exploration goes to).
C2_SamplingStepsCapped == Len(generated_ending) < MaxGen

\* the ids whose surface form ends in an end-of-sentence marker
EosIds == {k \in 1..lexicon_size :
              \E c \in eos_tokens : lexicon_lookup[k][Len(lexicon_lookup[k])] = c}

\* C3: with all mass on an id whose word ends in an end-of-sentence marker,
\* generate on a non-empty context samples exactly once, stops without an error
\* and returns that one id alone.
C3_EosOnlyStopsAfterOne ==
    \A k \in EosIds :
        (net = {k} /\ story_no >= 1 /\ Len(story_idxs) >= 1) =>
            /\ gpc # "error"
            /\ Len(generated_ending) <= 1
            /\ (gpc = "sample" => generated_ending = <<>>)
            /\ (gpc \in {"reset", "decode", "for", "finished"} => generated_ending = <<k>>)
            /\ (gpc \in {"for", "finished"} => generated_text = <<lexicon_lookup[k]>>)

C3_Witness ==
    /\ net = {4}
    /\ gpc = "for"
    /\ story_no = 2
    /\ story_idxs = <<1, 2>>
    /\ generated_ending = <<4>>
    /\ generated_text = << <<".">> >>

\* C4: whenever a generation has ended, by the end-of-sentence rule or by an error
\* raised in the sampling loop, the hidden state has been reset, so the Reading
\* phase of any later story on this model instance begins from the zero state.
C4_ZeroStateHoweverEnded ==
    /\ (gpc \in {"decode", "for", "finished", "error"} => gen_state = <<>>)
    /\ (gpc = "read" /\ step_idx = 0 => gen_state = <<>>)

NonPad(ids) == SelectSeq(ids, LAMBDA id : id # 0)

\* C5: every distribution predict returns for a story is conditioned on the ids
\* fed for that story alone (its context so far and its own sampled ids), and
\* every optimization step runs on a state that holds its own mini-batch alone.
C5_StateIsolation ==
    /\ n_predicts > 0 =>
          /\ p_next_word.story = story_no
          /\ p_next_word.from = NonPad(SubSeq(story_idxs, 1, step_idx) \o generated_ending)
          /\ gpc \in {"read", "while", "sample", "error"} => gen_state = p_next_word.from
    /\ tpc = "append" =>
          /\ train_from = <<>>
          /\ rnn_state = << <<epoch, batch_idx>> >>

C5_Witness ==
    /\ story_no = 2
    /\ gpc = "while"
    /\ Len(story_idxs) = 2
    /\ Len(generated_ending) = 2
    /\ p_next_word.from = story_idxs \o generated_ending

\* C6: the context is fed one id per step in its order, and the first id is
\* sampled from the distribution the predict call on the last context id
\* returned (call number len(context) of the story, conditioned on the context).
C6_FirstSampleFromLastContextToken ==
    /\ gpc = "read" =>
          /\ n_predicts = step_idx
          /\ gen_state = SubSeq(story_idxs, 1, step_idx)
    /\ (Len(story_idxs) >= 1 /\ Len(sampled_from) >= 1) =>
          sampled_from[1] = [story |-> story_no, call |-> Len(story_idxs),
                             from |-> story_idxs, support |-> net]

C6_Witness ==
    /\ story_idxs = <<2, 1>>
    /\ Len(sampled_from) = 1
    /\ sampled_from[1].from = <<2, 1>>
    /\ story_no = 2

\* C7: for an empty context the first id is sampled from a defined distribution
\* that belongs to this story and is conditioned on the zero hidden state.
C7_EmptyContextSamplesFromZeroState ==
    (story_no >= 1 /\ Len(story_idxs) = 0) =>
        /\ raised # "NameError"
        /\ Len(sampled_from) >= 1 =>
              /\ sampled_from[1] # NoDist
              /\ sampled_from[1].story = story_no
              /\ sampled_from[1].from = <<>>

\* the rows of the mini-batch the last train_on_batch was called with
BatchRows == 1..batch_size
BatchSeq(r) == train_seqs[batch_idx + r]
TermsOfRow(r) == {t \in 1..n_timesteps : <<r, t>> \in loss.terms}

\* C8 as stated (for a model built with at least one timestep): the loss has a
\* term at exactly the positions whose target id is not 0, and a row holding one
\* real token contributes exactly one term.
C8_TermsWhereTargetNonzero ==
    (tpc = "append" /\ n_timesteps >= 1) =>
        \A r \in BatchRows :
            /\ TermsOfRow(r) = {t \in 1..n_timesteps : train_y[batch_idx + r][t] # 0}
            /\ Len(BatchSeq(r)) = 1 => Cardinality(TermsOfRow(r)) = 1

\* C8 amended: the loss has a term at exactly the positions whose input id is
\* not 0: for a row of width W holding a story of L words these are the last
\* L - 1 positions, none of which has target 0; the position whose target is the
\* story's first word has none, and a row holding one real token has no term.
C8_TermsWhereInputNonzero ==
    tpc = "append" =>
        \A r \in BatchRows :
            /\ TermsOfRow(r) = {t \in 1..(maxlen - 1) : t > maxlen - Len(BatchSeq(r))}
            /\ \A t \in TermsOfRow(r) : train_y[batch_idx + r][t] # 0
            /\ Len(BatchSeq(r)) >= 1 => Cardinality(TermsOfRow(r)) = Len(BatchSeq(r)) - 1
            /\ Len(BatchSeq(r)) = 1 => TermsOfRow(r) = {}

C8_Witness ==
    /\ tpc = "append"
    /\ batch_size = 2
    /\ maxlen = 3
    /\ Len(train_seqs[1]) = 1
    /\ Len(train_seqs[2]) = 3
    /\ loss.terms = {<<2, 1>>, <<2, 2>>}

\* C9: for stories of length >= 1 the padded matrix has one row per story and
\* max_length columns, each row ends in its story's last id, the zeros of a row
\* are exactly its leading positions, and stories of one word each give a
\* single column without padding.
C9_BatchInvariant ==
    (tpc \notin {"idle", "pad"} /\ \A i \in 1..Len(train_seqs) : Len(train_seqs[i]) >= 1) =>
        /\ Len(train_idxs) = Len(train_seqs)
        /\ \A i \in 1..Len(train_seqs) :
              LET s == train_seqs[i]
                  row == train_idxs[i]
              IN  /\ Len(row) = maxlen
                  /\ \A j \in 1..Len(train_seqs) : Len(train_seqs[j]) <= maxlen
                  /\ \E j \in 1..Len(train_seqs) : Len(train_seqs[j]) = maxlen
                  /\ row[maxlen] = s[Len(s)]
                  /\ \A c \in 1..maxlen : (row[c] = 0) <=> (c <= maxlen - Len(s))
        /\ (\A i \in 1..Len(train_seqs) : Len(train_seqs[i]) = 1) =>
              /\ maxlen = 1
              /\ \A i \in 1..Len(train_idxs) : train_idxs[i] = train_seqs[i]

C9_Witness ==
    /\ tpc = "xy"
    /\ train_seqs = << <<2>>, <<1, 1, 2>> >>
    /\ train_idxs = << <<0, 0, 2>>, <<1, 1, 2>> >>

RECURSIVE strip_leading_zeros(_)
strip_leading_zeros(row) ==
    IF Len(row) > 0 /\ row[1] = 0 THEN strip_leading_zeros(Tail(row)) ELSE row

\* C10: left-padding a sequence of positive ids of length L to a width W >= L
\* and stripping the leading zeros gives the sequence back.
C10_PadStripRoundTrip ==
    tpc \notin {"idle", "pad"} =>
        \A i \in 1..Len(train_seqs) :
            /\ Len(train_seqs[i]) <= maxlen
            /\ strip_leading_zeros(train_idxs[i]) = train_seqs[i]

C10_Witness ==
    /\ tpc = "xy"
    /\ maxlen = 3
    /\ \E i \in 1..Len(train_seqs) :
          /\ Len(train_seqs[i]) = 1
          /\ train_idxs[i][1] = 0
          /\ strip_leading_zeros(train_idxs[i]) = train_seqs[i]

\* C11: the input is columns 1..W-1 and the target columns 2..W of every padded
\* row of width W >= 1, so the target at t is the input at t + 1, both have
\* length W - 1, and the model is built with n_timesteps = W - 1.
C11_OffsetInvariant ==
    (tpc \notin {"idle", "pad", "xy"} /\ maxlen >= 1) =>
        /\ Len(train_x) = Len(train_idxs)
        /\ Len(train_y) = Len(train_idxs)
        /\ \A i \in 1..Len(train_idxs) :
              /\ Len(train_x[i]) = maxlen - 1
              /\ Len(train_y[i]) = maxlen - 1
              /\ \A t \in 1..(maxlen - 1) :
                    /\ train_x[i][t] = train_idxs[i][t]
                    /\ train_y[i][t] = train_idxs[i][t + 1]
              /\ \A t \in 1..(maxlen - 2) : train_y[i][t] = train_x[i][t + 1]
              /\ tpc # "create" => n_timesteps = Len(train_x[i])

C11_Witness ==
    /\ tpc = "epoch"
    /\ train_idxs = << <<0, 1, 2>>, <<2, 2, 1>> >>
    /\ train_x = << <<0, 1>>, <<2, 2>> >>
    /\ train_y = << <<1, 2>>, <<2, 1>> >>
    /\ n_timesteps = 2

\* C12: a mini-batch loss that is not finite stops the epoch where it occurs: it
\* is not appended to losses, no later step of the loop runs with it, and the
\* mean that is reported (and checkpointed) covers finite losses only.
C12_NonFiniteLossAborts ==
    n_timesteps >= 1 =>
        /\ \A i \in 1..Len(losses) : losses[i].finite
        /\ ~loss.finite => tpc \in {"append", "error"}
        /\ \A i \in 1..Len(reported.over) : reported.over[i].finite

FullBatches == Len(train_seqs) \div batch_size

\* C13: a mini-batch whose row count is not batch_size is never trained on: the
\* train_on_batch call raises, leaves the model and the data as they were, and
\* nothing runs after it (no retry, no reshaping of the batch).
C13_RowCountMismatchIsFatal ==
    /\ loss # NoLoss => loss.rows = batch_size
    /\ tpc = "append" => loss.batch = batch_idx /\ loss.rows = batch_size
    /\ tpc = "error" =>
          /\ Len(row_slice(train_x, batch_idx, batch_idx + batch_size)) # batch_size
          /\ Len(row_slice(train_x, batch_idx, batch_idx + batch_size)) >= 1
          /\ rnn_state = <<>>
          /\ \A r \in 1..batch_size : rnn_rows[r] = <<>>
          /\ n_trains = epoch * FullBatches + (batch_idx \div batch_size)
          /\ Len(losses) = batch_idx \div batch_size
          /\ train_x = input_slice(train_idxs)
          /\ ~ENABLED TrainNext

C13_Witness ==
    /\ tpc = "error"
    /\ Len(train_seqs) = 1
    /\ batch_size = 2
    /\ n_trains = 0
    /\ loss = NoLoss

\* C15: save_weights is called once per completed epoch and only after the
\* epoch's last mini-batch; the mean printed before it is taken over the losses
\* of that epoch's mini-batches alone, one per mini-batch in order; a run that
\* ends normally has made n_epochs calls.
C15_ReportAndSavePerEpoch ==
    /\ n_saves <= n_epochs
    /\ tpc = "done" => n_saves = n_epochs
    /\ tpc \in {"epoch", "done"} => n_trains = n_saves * FullBatches
    /\ tpc \in {"train", "append", "reset", "error"} =>
          /\ n_saves * FullBatches <= n_trains
          /\ n_trains <= (n_saves + 1) * FullBatches
    /\ tpc \in {"report", "save"} =>
          /\ n_trains = (n_saves + 1) * FullBatches
          /\ batch_idx >= Len(train_seqs)
          /\ Len(losses) = FullBatches
          /\ \A i \in 1..Len(losses) :
                losses[i].epoch = n_saves /\ losses[i].batch = (i - 1) * batch_size
    /\ tpc = "save" => reported = [epoch |-> n_saves + 1, over |-> losses]
    /\ (tpc \in {"epoch", "train", "append", "reset", "report", "done"} /\ n_saves >= 1) =>
          /\ reported.epoch = n_saves
          /\ Len(reported.over) = FullBatches
          /\ \A i \in 1..Len(reported.over) : reported.over[i].epoch = n_saves - 1

C15_Witness ==
    /\ tpc = "epoch"
    /\ n_saves = 2
    /\ Len(reported.over) = 2
    /\ reported.over[2].epoch = 1
    /\ reported.over[2].batch = 1

\* C17: the hidden state a row leaves behind is the state its words alone leave
\* behind: consuming the left-padded input row gives the same state as consuming
\* the row without its leading zeros, namely the story's words but the last.
C17_PaddingLeavesStateAlone ==
    tpc = "append" =>
        \A r \in BatchRows :
            LET row == train_x[batch_idx + r]
                s == BatchSeq(r)
            IN  /\ rnn_rows[r] = consume(<<>>, strip_leading_zeros(row))
                /\ \A i \in 1..Len(rnn_rows[r]) : rnn_rows[r][i] # 0
                /\ Len(s) >= 1 => rnn_rows[r] = SubSeq(s, 1, Len(s) - 1)

C17_Witness ==
    /\ tpc = "append"
    /\ batch_size = 1
    /\ batch_idx = 1
    /\ train_x[2] = <<0, 2>>
    /\ rnn_rows[1] = <<2>>

\* C14: an id with no entry in lexicon_lookup (the padding id 0, which the
\* softmax over lexicon_size + 1 indices can yield) stops the generation cell
\* with a KeyError as soon as it is sampled; an ending that is decoded holds
\* known ids only and its text is their words, one for one.
C14_UnknownIdFailsLoudly ==
    /\ \A i \in 1..Len(generated_ending) :
          generated_ending[i] \notin 1..lexicon_size =>
              /\ i = Len(generated_ending)
              /\ gpc \in {"while", "error"}
    /\ raised = "KeyError" =>
          /\ gpc = "error"
          /\ Len(generated_ending) >= 1
          /\ generated_ending[Len(generated_ending)] \notin 1..lexicon_size
          /\ ~ENABLED GenNext
    /\ (gpc \in {"for", "finished"} /\ story_no >= 1) =>
          /\ Len(generated_text) = Len(generated_ending)
          /\ \A i \in 1..Len(generated_ending) :
                /\ generated_ending[i] \in 1..lexicon_size
                /\ generated_text[i] = lexicon_lookup[generated_ending[i]]

C14_Witness ==
    /\ gpc = "error"
    /\ raised = "KeyError"
    /\ generated_ending = <<1, 0>>
    /\ next_word = 0
    /\ story_no = 2

C18_AutoregressiveHistory ==
    (story_no >= 1 /\ Len(story_idxs) >= 1) =>
        /\ n_predicts = step_idx + Len(generated_ending)
        /\ gpc \in {"read", "while", "sample", "reset"} =>
              /\ gen_state = NonPad(SubSeq(story_idxs, 1, step_idx) \o generated_ending)
              /\ story_resets = 0
        /\ gpc \in {"decode", "for", "finished", "error"} =>
              /\ n_predicts = Len(story_idxs) + Len(generated_ending)
              /\ story_resets = 1

\* C19: a story that leaves the sampling loop has sampled at least one id, its
\* last id and no earlier one is a word ending in an end-of-sentence marker, and
\* the test that stopped it looked at the id sampled last in this story: a
\* next_word left by an earlier story or never bound is not tested.
C19_StopsOnOwnEosToken ==
    /\ (gpc \in {"reset", "decode"} \/ (gpc \in {"for", "finished"} /\ story_no >= 1)) =>
          /\ Len(generated_ending) >= 1
          /\ generated_ending[Len(generated_ending)] \in EosIds
          /\ \A i \in 1..(Len(generated_ending) - 1) : generated_ending[i] \notin EosIds
    /\ Len(generated_ending) >= 1 =>
          next_word = generated_ending[Len(generated_ending)]
    /\ raised = "NameError" => Len(story_idxs) = 0 /\ story_no = 1

C19_Witness ==
    /\ story_no = 2
    /\ gpc = "sample"
    /\ generated_ending = <<>>
    /\ next_word \in EosIds
    /\ Len(story_idxs) >= 1

\* C20 as stated: for any number of stories the mini-batches of an epoch are
\* consecutive row slices of exactly batch_size rows each, the same rows for
\* input and target, every one is trained, and at the end of the epoch every
\* story has been in exactly one trained mini-batch.
C20_BatchesPartitionRows ==
    /\ tpc # "error"
    /\ tpc = "train" =>
          /\ batch_idx % batch_size = 0
          /\ Len(row_slice(train_x, batch_idx, batch_idx + batch_size)) = batch_size
          /\ Len(row_slice(train_y, batch_idx, batch_idx + batch_size)) = batch_size
    /\ tpc = "report" => Len(losses) * batch_size = Len(train_seqs)

\* the mini-batches of losses that hold story k
BatchesOf(k) == {i \in 1..Len(losses) :
                    losses[i].batch < k /\ k <= losses[i].batch + losses[i].rows}

\* C20, amended: the mini-batches start at rows 0, batch_size, 2 * batch_size, ...
\* and take the same consecutive rows of input and target.  When the number of
\* stories is a multiple of batch_size every mini-batch has batch_size rows and
\* at the end of an epoch every story has been in exactly one trained
\* mini-batch; otherwise the last slice has the remaining rows only, the run
\* stops on it in the first epoch and its stories are never trained on.
C20_BatchesPartitionWhenDivisible ==
    /\ tpc \in {"train", "append", "reset", "error"} =>
          /\ batch_idx % batch_size = 0
          /\ batch_idx < Len(train_seqs)
    /\ tpc = "append" =>
          /\ Len(loss.x) = batch_size
          /\ Len(loss.y) = batch_size
          /\ \A r \in 1..batch_size :
                /\ loss.x[r] = train_x[batch_idx + r]
                /\ loss.y[r] = train_y[batch_idx + r]
    /\ tpc \in {"append", "reset", "report", "save"} =>
          \A k \in 1..Len(train_seqs) :
              Cardinality(BatchesOf(k)) <= 1
    /\ tpc = "report" =>
          /\ Len(train_seqs) % batch_size = 0
          /\ \A k \in 1..Len(train_seqs) : Cardinality(BatchesOf(k)) = 1
    /\ tpc = "error" =>
          /\ Len(train_seqs) % batch_size # 0
          /\ batch_idx = FullBatches * batch_size
          /\ Len(row_slice(train_x, batch_idx, batch_idx + batch_size))
                = Len(train_seqs) % batch_size
          /\ epoch = 0
          /\ \A k \in (batch_idx + 1)..Len(train_seqs) : BatchesOf(k) = {}
    /\ (tpc = "train" /\ Len(train_seqs) % batch_size = 0) =>
          /\ Len(row_slice(train_x, batch_idx, batch_idx + batch_size)) = batch_size
          /\ Len(row_slice(train_y, batch_idx, batch_idx + batch_size)) = batch_size

C20_Witness ==
    /\ tpc = "report"
    /\ epoch = 1
    /\ batch_size = 1
    /\ Len(losses) = 2
    /\ losses[1].x = << <<1, 2>> >>
    /\ losses[2].x = << <<0, 1>> >>
    /\ losses[2].batch = 1

====
